---- MODULE Spec2Model ----
(***************************************************************************)
(* Transaction lifecycle of the fiat-to-crypto gateway (app.js):           *)
(*   POST /api/transactions      create a purchase, relay it to MoonPay    *)
(*   GET  /api/transactions/:id  read a purchase, reconcile with MoonPay   *)
(*   POST /api/webhook/moonpay   status push from MoonPay                  *)
(* Every handler is an async function: it runs atomically between two      *)
(* awaits, and handlers of different requests interleave at the awaits.    *)
(* The Transactions table is the shared state.  MoonPay is the             *)
(* environment: what it answers is an input of the step that receives it.  *)
(***************************************************************************)
EXTENDS Integers, Sequences, FiniteSets, TLC

\* ------------------------------------------------------------------ bounds
\* Requests accepted over one run (create + fetch + webhook together).
MaxRequests == 3

\* ------------------------------------------------------- nullable values
\* A nullable column or JSON member: << >> is null/absent, <<v>> holds v.
Null == << >>
Some(v) == <<v>>

\* ------------------------------------------------------------ input sets
\* Status strings MoonPay reports; the local status mirrors them verbatim.
Statuses == {"waitingPayment", "completed"}

\* Identifiers MoonPay answers a create call with.
ExtIds == {"ext_1", "ext_2"}

\* Crypto amounts MoonPay reports.
CryptoAmounts == {Some(12)}

\* Redirect URLs MoonPay answers a create call with.
RedirectUrls == {"https://pay/ext_1"}

\* The Users table: written by a registration flow outside app.js.
Users ==
  [u \in {1} |-> [id |-> u, firstName |-> "John", lastName |-> "Doe",
                  email |-> "john@example.com", phone |-> "+254712345678"]]

CardDetails ==
  [cardNumber |-> "4242424242424242", expiryMonth |-> "12",
   expiryYear |-> "2025", cvv |-> "123", cardholderName |-> "John Doe"]

UserDetails == [walletAddress |-> "3FZbgi29cpjq2GjdwV8eyHuJJnkLtktZc5"]

\* Request bodies of POST /api/transactions.  TestBody is the body test.js
\* sends.
TestBody ==
  [userId |-> 1, amount |-> Some(5000), currency |-> "KES",
   cryptoCurrency |-> "btc", paymentMethod |-> "mobile_money",
   cardDetails |-> Null, userDetails |-> Some(UserDetails)]

\* The bodies the three handlers are run against together: the body of
\* test.js, a body without userDetails and a body with an unknown userId.
CoreBodies ==
  { TestBody,
    [TestBody EXCEPT !.userDetails = Null],
    [TestBody EXCEPT !.userId = 2] }

\* The bodies the create handler is run against on its own: the above, a card
\* purchase, a card purchase without cardDetails and a body without amount.
CreateBodies ==
  CoreBodies \cup
  { [TestBody EXCEPT !.paymentMethod = "card_payment",
                     !.cardDetails = Some(CardDetails)],
    [TestBody EXCEPT !.paymentMethod = "card_payment"],
    [TestBody EXCEPT !.amount = Null] }

\* Answers of MoonPay to POST /v1/transactions: an error (axios rejects), or
\* a 2xx whose data is {id, status, redirectUrl}.
CreateReplies ==
  { [ok |-> FALSE, data |-> Null] } \cup
  { [ok |-> TRUE,
     data |-> Some([id |-> Some(e), status |-> s, redirectUrl |-> u])] :
      e \in ExtIds, s \in Statuses, u \in RedirectUrls }

\* Answers of MoonPay to GET /v1/transactions/:id.
LookupReplies ==
  { [ok |-> FALSE, data |-> Null] } \cup
  { [ok |-> TRUE, data |-> Some([status |-> s, cryptoAmount |-> c])] :
      s \in Statuses, c \in CryptoAmounts }

\* Bodies of POST /api/webhook/moonpay.  The endpoint is unauthenticated, so
\* the id is any JSON value, null included; a body may lack data altogether.
WebhookBodies ==
  { [data |-> Null] } \cup
  { [data |-> Some([id |-> e, status |-> s, cryptoAmount |-> c])] :
      e \in {Null} \cup {Some(x) : x \in ExtIds},
      s \in Statuses, c \in CryptoAmounts }

\* ----------------------------------------------------------------- state
VARIABLES
  txs,       \* the Transactions table: row i has primary key i
  handlers,  \* the request handlers suspended at an await, in arrival order
  done,      \* the handler that answered in the last step, with its response
  arrived,   \* number of requests accepted so far
  orphaned   \* history: primary keys of the rows whose MoonPay create call failed

vars == <<txs, handlers, done, arrived, orphaned>>

NoHandler == [kind |-> "none"]

\* ------------------------------------------------------- the record store
\* A faulty lookup: the query loses its WHERE clause and returns the first user.
FindFirstUser(userId) ==
  Some(Users[CHOOSE u \in DOMAIN Users : TRUE])

\* User.findByPk(userId): the user, or null.
FindUser(userId) ==
  IF userId \in DOMAIN Users THEN Some(Users[userId]) ELSE Null

\* A faulty insert: the row starts in the status of an accepted purchase.
NewTransactionAccepted(id, body) ==
  [id |-> id,
   userId |-> body.userId,
   amount |-> body.amount,
   currency |-> body.currency,
   cryptoAmount |-> Null,
   cryptoCurrency |-> body.cryptoCurrency,
   status |-> "waitingPayment",
   paymentMethod |-> body.paymentMethod,
   moonpayTransactionId |-> Null]

\* Transaction.create({userId, amount, currency, cryptoCurrency,
\* status: 'pending', paymentMethod}): the columns not given stay NULL.
NewTransaction(id, body) ==
  [id |-> id,
   userId |-> body.userId,
   amount |-> body.amount,
   currency |-> body.currency,
   cryptoAmount |-> Null,
   cryptoCurrency |-> body.cryptoCurrency,
   status |-> "pending",
   paymentMethod |-> body.paymentMethod,
   moonpayTransactionId |-> Null]

\* A faulty merge: the status of MoonPay's answer is dropped.
SetIdOnly(t, data) ==
  [t EXCEPT !.moonpayTransactionId = data.id]

\* transaction.update({moonpayTransactionId, status}) on the instance.
SetIdStatus(t, data) ==
  [t EXCEPT !.moonpayTransactionId = data.id, !.status = data.status]

\* A faulty merge: the cryptoAmount of MoonPay's answer is dropped.
SetStatusOnly(t, data) ==
  [t EXCEPT !.status = data.status]

\* transaction.update({status, cryptoAmount}) on the instance.
SetStatusAmount(t, data) ==
  [t EXCEPT !.status = data.status, !.cryptoAmount = data.cryptoAmount]

\* The UPDATE that instance.update issues: the named columns of the row with
\* the instance's primary key take the instance's values; the other columns
\* and the other rows are left alone.
SaveIdStatus(rows, t) ==
  [rows EXCEPT ![t.id] = [@ EXCEPT !.moonpayTransactionId = t.moonpayTransactionId,
                                   !.status = t.status]]

\* A faulty UPDATE: a row that reads 'completed' is treated as final and kept.
SaveStatusAmountUnlessCompleted(rows, t) ==
  IF rows[t.id].status = "completed"
  THEN rows
  ELSE [rows EXCEPT ![t.id] = [@ EXCEPT !.status = t.status,
                                        !.cryptoAmount = t.cryptoAmount]]

\* A faulty UPDATE: WHERE names the external id instead of the primary key.
SaveStatusAmountByExternalId(rows, t) ==
  [j \in 1..Len(rows) |->
     IF rows[j].moonpayTransactionId = t.moonpayTransactionId
     THEN [rows[j] EXCEPT !.status = t.status, !.cryptoAmount = t.cryptoAmount]
     ELSE rows[j]]

\* A faulty UPDATE: the whole instance is saved, stale columns included.
SaveWholeInstance(rows, t) ==
  [rows EXCEPT ![t.id] = t]

\* A faulty UPDATE: the crypto amount lands in the amount column.
SaveStatusIntoAmount(rows, t) ==
  [rows EXCEPT ![t.id] = [@ EXCEPT !.status = t.status,
                                   !.amount = t.cryptoAmount]]

SaveStatusAmount(rows, t) ==
  [rows EXCEPT ![t.id] = [@ EXCEPT !.status = t.status,
                                   !.cryptoAmount = t.cryptoAmount]]

\* A faulty test: every row is taken to have an external id.
HasExternalIdAlways(t) == TRUE

\* if (transaction.moonpayTransactionId): the row has an external id.
HasExternalId(t) == t.moonpayTransactionId # Null

\* A faulty query: the WHERE clause is lost and every row is selected.
FindAllRows(rows, id) ==
  { rows[i] : i \in 1..Len(rows) }

\* Transaction.findOne({where: {moonpayTransactionId: id}}): the rows the
\* WHERE clause selects (a null id selects the rows whose column IS NULL).
\* The query has no ORDER BY, so any selected row may be the one returned.
FindByExternalId(rows, id) ==
  { rows[i] : i \in { j \in 1..Len(rows) : rows[j].moonpayTransactionId = id } }

\* -------------------------------------------------------- handler helpers
\* The handlers still suspended once handler i has answered.
Without(hs, i) == SubSeq(hs, 1, i - 1) \o SubSeq(hs, i + 1, Len(hs))

\* Handler h answers with response res.
Answer(h, res) == [h EXCEPT !.pc = "done", !.res = res]

\* The MoonPay payload of a create request (card is absent unless the
\* purchase is a card purchase that carries cardDetails).
MoonpayPayload(body, user, transaction) ==
  LET base == [walletAddress |-> body.userDetails[1].walletAddress,
               currencyCode |-> body.cryptoCurrency,
               baseCurrencyAmount |-> body.amount,
               baseCurrencyCode |-> body.currency,
               externalTransactionId |-> transaction.id,
               customer |-> [firstName |-> user.firstName,
                             lastName |-> user.lastName,
                             email |-> user.email,
                             phoneNumber |-> user.phone,
                             externalCustomerId |-> user.id]]
      withCard == body.paymentMethod = "card_payment" /\ body.cardDetails # Null
  IN  IF withCard
      THEN base @@ [paymentMethod |-> "credit_debit_card",
                    card |-> Some([number |-> body.cardDetails[1].cardNumber,
                                   expirationMonth |-> body.cardDetails[1].expiryMonth,
                                   expirationYear |-> body.cardDetails[1].expiryYear,
                                   cvc |-> body.cardDetails[1].cvv,
                                   cardholderName |-> body.cardDetails[1].cardholderName])]
      ELSE base @@ [paymentMethod |-> body.paymentMethod, card |-> Null]

\* ------------------------------------------------ POST /api/transactions
\* A create handler.  written and posts are history fields: the primary keys
\* of the rows this handler inserted, and the number of MoonPay create calls
\* it issued.
CreateHandler(body) ==
  [kind |-> "create", pc |-> "findUser", body |-> body, user |-> Null,
   transaction |-> Null, moonpayPayload |-> Null, moonpayResponse |-> Null,
   res |-> Null, written |-> << >>, posts |-> 0]

\* The request arrives and User.findByPk(userId) resolves: 404 when there is
\* no such user, otherwise the handler goes on to Transaction.create.
CreateRequest(body) ==
  /\ arrived < MaxRequests
  /\ arrived' = arrived + 1
  /\ UNCHANGED <<txs, orphaned>>
  /\ LET user == FindUser(body.userId)
     IN  IF user # Null
         THEN /\ handlers' = Append(handlers, [CreateHandler(body) EXCEPT
                                                !.pc = "create", !.user = user])
              /\ done' = NoHandler
         ELSE /\ handlers' = handlers
              /\ done' = Answer(CreateHandler(body),
                                Some([status |-> 404, error |-> "User not found"]))

\* Transaction.create resolves: the row is inserted under the next primary key.
CreateInsert(i) ==
  /\ handlers[i].kind = "create"
  /\ handlers[i].pc = "create"
  /\ LET t == NewTransaction(Len(txs) + 1, handlers[i].body)
     IN  /\ txs' = Append(txs, t)
         /\ handlers' = [handlers EXCEPT ![i] =
                           [@ EXCEPT !.pc = "built",
                                     !.transaction = Some(t),
                                     !.written = Append(@, t.id)]]
  /\ done' = NoHandler
  /\ UNCHANGED <<arrived, orphaned>>

\* The handler resumes after the insert: it builds the payload (a TypeError
\* when the body has no userDetails, caught as a 500) and issues axios.post.
CreatePost(i) ==
  /\ handlers[i].kind = "create"
  /\ handlers[i].pc = "built"
  /\ LET h == handlers[i]
     IN  IF h.body.userDetails = Null
         THEN /\ handlers' = Without(handlers, i)
              /\ done' = Answer(h, Some([status |-> 500, error |-> "Transaction failed"]))
         ELSE /\ handlers' = [handlers EXCEPT ![i] =
                   [@ EXCEPT !.pc = "post",
                             !.moonpayPayload =
                                Some(MoonpayPayload(h.body, h.user[1],
                                                    h.transaction[1])),
                             !.posts = @ + 1]]
              /\ done' = NoHandler
  /\ UNCHANGED <<txs, arrived, orphaned>>

\* axios.post settles: a rejection is caught as a 500; on a 2xx the handler
\* sets the external id and status on its instance and issues the UPDATE.
CreatePostReturn(i, reply) ==
  /\ handlers[i].kind = "create"
  /\ handlers[i].pc = "post"
  /\ LET h == handlers[i]
     IN  IF ~reply.ok
         THEN /\ handlers' = Without(handlers, i)
              /\ done' = Answer(h, Some([status |-> 500, error |-> "Transaction failed"]))
              /\ orphaned' = orphaned \cup {h.transaction[1].id}
         ELSE /\ handlers' = [handlers EXCEPT ![i] =
                   [@ EXCEPT !.pc = "update",
                             !.moonpayResponse = reply.data,
                             !.transaction = Some(SetIdStatus(h.transaction[1],
                                                              reply.data[1]))]]
              /\ done' = NoHandler
              /\ orphaned' = orphaned
  /\ UNCHANGED <<txs, arrived>>

\* The UPDATE resolves and the handler answers {transaction, moonpayUrl}.
CreateUpdate(i) ==
  /\ handlers[i].kind = "create"
  /\ handlers[i].pc = "update"
  /\ LET h == handlers[i]
     IN  /\ txs' = SaveIdStatus(txs, h.transaction[1])
         /\ handlers' = Without(handlers, i)
         /\ done' = Answer(h, Some([status |-> 200,
                                    transaction |-> h.transaction[1],
                                    moonpayUrl |-> h.moonpayResponse[1].redirectUrl]))
  /\ UNCHANGED <<arrived, orphaned>>

\* --------------------------------------------- GET /api/transactions/:id
\* A fetch handler.  gets is a history field: the number of MoonPay lookup
\* calls it issued.  overtakenBy is a history field too: the status a webhook
\* wrote to this handler's row after MoonPay had answered this handler and
\* before this handler's own UPDATE (null when no webhook did).
FetchHandler(id) ==
  [kind |-> "fetch", pc |-> "find", id |-> id,
   transaction |-> Null, moonpayResponse |-> Null,
   res |-> Null, read |-> Null, gets |-> 0, overtakenBy |-> Null]

\* The request arrives and Transaction.findByPk(id) resolves: 404 without a
\* row; with a row that has an external id the handler issues axios.get;
\* with a row that has none it answers the row as read.
FetchRequest(id) ==
  /\ arrived < MaxRequests
  /\ arrived' = arrived + 1
  /\ UNCHANGED <<txs, orphaned>>
  /\ IF id \notin 1..Len(txs)
     THEN /\ handlers' = handlers
          /\ done' = Answer(FetchHandler(id),
                            Some([status |-> 404, error |-> "Transaction not found"]))
     ELSE LET h == [FetchHandler(id) EXCEPT !.transaction = Some(txs[id]),
                                            !.read = Some(txs[id])]
          IN  IF HasExternalId(txs[id])
              THEN /\ handlers' = Append(handlers, [h EXCEPT !.pc = "get", !.gets = @ + 1])
                   /\ done' = NoHandler
              ELSE /\ handlers' = handlers
                   /\ done' = Answer(h, Some([status |-> 200,
                                              transaction |-> h.transaction[1]]))

\* A faulty handler: when axios.get rejects, the row as read is answered.
FetchGetReturnStale(i, reply) ==
  /\ handlers[i].kind = "fetch"
  /\ handlers[i].pc = "get"
  /\ LET h == handlers[i]
     IN  IF ~reply.ok
         THEN /\ handlers' = Without(handlers, i)
              /\ done' = Answer(h, Some([status |-> 200,
                                         transaction |-> h.transaction[1]]))
         ELSE /\ handlers' = [handlers EXCEPT ![i] =
                   [@ EXCEPT !.pc = "update",
                             !.moonpayResponse = reply.data,
                             !.transaction = Some(SetStatusAmount(h.transaction[1],
                                                                  reply.data[1]))]]
              /\ done' = NoHandler
  /\ UNCHANGED <<txs, arrived, orphaned>>

\* axios.get settles: a rejection is caught as a 500; on a 2xx the handler
\* sets status and cryptoAmount on its instance and issues the UPDATE.
FetchGetReturn(i, reply) ==
  /\ handlers[i].kind = "fetch"
  /\ handlers[i].pc = "get"
  /\ LET h == handlers[i]
     IN  IF ~reply.ok
         THEN /\ handlers' = Without(handlers, i)
              /\ done' = Answer(h, Some([status |-> 500,
                                         error |-> "Failed to fetch transaction"]))
         ELSE /\ handlers' = [handlers EXCEPT ![i] =
                   [@ EXCEPT !.pc = "update",
                             !.moonpayResponse = reply.data,
                             !.transaction = Some(SetStatusAmount(h.transaction[1],
                                                                  reply.data[1]))]]
              /\ done' = NoHandler
  /\ UNCHANGED <<txs, arrived, orphaned>>

\* The UPDATE resolves and the handler answers its instance.
FetchUpdate(i) ==
  /\ handlers[i].kind = "fetch"
  /\ handlers[i].pc = "update"
  /\ LET h == handlers[i]
     IN  /\ txs' = SaveStatusAmount(txs, h.transaction[1])
         /\ handlers' = Without(handlers, i)
         /\ done' = Answer(h, Some([status |-> 200,
                                    transaction |-> h.transaction[1]]))
  /\ UNCHANGED <<arrived, orphaned>>

\* ------------------------------------------- POST /api/webhook/moonpay
WebhookHandler(body) ==
  [kind |-> "webhook", pc |-> "find", body |-> body,
   transaction |-> Null, res |-> Null]

\* The request arrives and Transaction.findOne resolves: a body without data
\* is a TypeError, caught as a 500; without a matching row the handler
\* answers 200 'OK'; with one it sets status and cryptoAmount on the
\* instance and issues the UPDATE.
WebhookRequest(body) ==
  /\ arrived < MaxRequests
  /\ arrived' = arrived + 1
  /\ UNCHANGED <<txs, orphaned>>
  /\ IF body.data = Null
     THEN /\ handlers' = handlers
          /\ done' = Answer(WebhookHandler(body),
                            Some([status |-> 500, text |-> "Error processing webhook"]))
     ELSE LET found == FindByExternalId(txs, body.data[1].id)
          IN  IF found = {}
              THEN /\ handlers' = handlers
                   /\ done' = Answer(WebhookHandler(body),
                                     Some([status |-> 200, text |-> "OK"]))
              ELSE /\ \E t \in found :
                        handlers' = Append(handlers,
                          [WebhookHandler(body) EXCEPT
                             !.pc = "update",
                             !.transaction = Some(SetStatusAmount(t, body.data[1]))])
                   /\ done' = NoHandler

\* The UPDATE resolves and the handler answers 200 'OK'.  (The last conjunct
\* of handlers' keeps the fetch handlers' overtakenBy history.)
WebhookUpdate(i) ==
  /\ handlers[i].kind = "webhook"
  /\ handlers[i].pc = "update"
  /\ LET h == handlers[i]
         noted == [j \in 1..Len(handlers) |->
                     IF /\ handlers[j].kind = "fetch"
                        /\ handlers[j].pc = "update"
                        /\ handlers[j].id = h.transaction[1].id
                     THEN [handlers[j] EXCEPT !.overtakenBy = Some(h.transaction[1].status)]
                     ELSE handlers[j]]
     IN  /\ txs' = SaveStatusAmount(txs, h.transaction[1])
         /\ handlers' = Without(noted, i)
         /\ done' = Answer(h, Some([status |-> 200, text |-> "OK"]))
  /\ UNCHANGED <<arrived, orphaned>>

Init ==
  /\ txs = << >>
  /\ handlers = << >>
  /\ done = NoHandler
  /\ arrived = 0
  /\ orphaned = {}

\* The create handler's steps once a request is accepted.
CreateSteps ==
  \/ \E i \in 1..Len(handlers) : CreateInsert(i)
  \/ \E i \in 1..Len(handlers) : CreatePost(i)
  \/ \E i \in 1..Len(handlers), reply \in CreateReplies : CreatePostReturn(i, reply)
  \/ \E i \in 1..Len(handlers) : CreateUpdate(i)

Next ==
  \/ \E body \in CoreBodies : CreateRequest(body)
  \/ CreateSteps
  \/ \E id \in 1..(Len(txs) + 1) : FetchRequest(id)
  \/ \E i \in 1..Len(handlers), reply \in LookupReplies : FetchGetReturn(i, reply)
  \/ \E i \in 1..Len(handlers) : FetchUpdate(i)
  \/ \E body \in WebhookBodies : WebhookRequest(body)
  \/ \E i \in 1..Len(handlers) : WebhookUpdate(i)

\* The three handlers, serving requests concurrently.
Spec == Init /\ [][Next]_vars

NextCreate ==
  \/ handlers = << >> /\ \E body \in CreateBodies : CreateRequest(body)
  \/ CreateSteps

\* The create handler alone, one request after the other, over every body.
SpecCreate == Init /\ [][NextCreate]_vars

\* ------------------------------------------------------------ properties
\* The create and fetch handlers suspended at an await.
InFlight(kind) ==
  { handlers[i] : i \in { j \in 1..Len(handlers) : handlers[j].kind = kind } }

\* C1: a create request of an existing user writes exactly one row, with
\* status 'pending' and a null external id, and writes it before it issues
\* the MoonPay create call, whether that call then succeeds or fails.
C1_Step ==
  /\ Len(txs') # Len(txs) =>
       /\ Len(txs') = Len(txs) + 1
       /\ txs'[Len(txs')].status = "pending"
       /\ txs'[Len(txs')].moonpayTransactionId = Null
       /\ \E i \in 1..Len(handlers) :
            /\ handlers[i].kind = "create"
            /\ handlers[i].written = << >>
            /\ handlers[i].posts = 0
            /\ handlers'[i].written = <<Len(txs')>>
            /\ handlers'[i].posts = 0
  /\ \A h \in InFlight("create")' \cup (IF done'.kind = "create" THEN {done'} ELSE {}) :
       h.body.userId \in DOMAIN Users =>
         /\ Len(h.written) <= 1
         /\ h.posts <= 1
         /\ (h.posts > 0 \/ h.pc = "done") =>
               /\ Len(h.written) = 1
               /\ h.written[1] \in 1..Len(txs')

C1_PendingRecordBeforeCall == [][C1_Step]_vars

\* C1 witness: MoonPay rejected the call of a create handler, which had
\* written its one row before the call; the row reads 'pending'.
C1_Witness ==
  /\ done.kind = "create"
  /\ done.posts = 1
  /\ done.res[1].status = 500
  /\ Len(done.written) = 1
  /\ txs[done.written[1]].status = "pending"
  /\ txs[done.written[1]].moonpayTransactionId = Null

\* C2: when the MoonPay create call succeeds, the record the create handler
\* returns, and the row it wrote, carry the id and status of MoonPay's answer,
\* and the response carries MoonPay's redirectUrl as moonpayUrl.
C2_CreateMergesProcessorAnswer ==
  (done.kind = "create" /\ done.moonpayResponse # Null) =>
    LET r == done.res[1]
        d == done.moonpayResponse[1]
        row == txs[r.transaction.id]
    IN  /\ r.status = 200
        /\ r.transaction.moonpayTransactionId = d.id
        /\ r.transaction.status = d.status
        /\ r.moonpayUrl = d.redirectUrl
        /\ row.moonpayTransactionId = d.id
        /\ row.status = d.status

\* C2 witness: the example of the specification (the body of test.js against
\* an answer {id: 'ext_1', status: 'waitingPayment', redirectUrl}).
C2_Witness ==
  /\ done.kind = "create"
  /\ done.body = TestBody
  /\ done.res[1].status = 200
  /\ done.res[1].transaction.status = "waitingPayment"
  /\ done.res[1].transaction.moonpayTransactionId = Some("ext_1")
  /\ done.res[1].moonpayUrl = "https://pay/ext_1"
  /\ txs[done.res[1].transaction.id].status = "waitingPayment"
  /\ txs[done.res[1].transaction.id].moonpayTransactionId = Some("ext_1")

\* C3: a create request whose userId names no user is answered 404 'User not
\* found'; it writes no row and issues no MoonPay call.
C3_Step ==
  /\ (done'.kind = "create" /\ done'.body.userId \notin DOMAIN Users) =>
       /\ done'.res[1].status = 404
       /\ done'.res[1].error = "User not found"
       /\ done'.written = << >>
       /\ done'.posts = 0
       /\ txs' = txs
  /\ \A h \in InFlight("create")' : h.body.userId \in DOMAIN Users

C3_UnknownUserIsNotFound == [][C3_Step]_vars

\* C3 witness: an unknown user is answered 404 while rows of other requests
\* exist.
C3_Witness ==
  /\ done.kind = "create"
  /\ done.body.userId \notin DOMAIN Users
  /\ done.res[1].status = 404
  /\ Len(txs) >= 1

\* C4: a fetch of a row that has an external id issues exactly one MoonPay
\* lookup call; when the call succeeds, the row's status and cryptoAmount
\* take the values of MoonPay's answer whatever the row read before
\* ('completed' included), and the handler returns the row as updated.
C4_FetchOverwrites ==
  /\ \A h \in InFlight("fetch") :
       h.read[1].moonpayTransactionId # Null /\ h.gets = 1
  /\ (done.kind = "fetch" /\ done.read # Null
        /\ done.read[1].moonpayTransactionId # Null) =>
       /\ done.gets = 1
       /\ done.moonpayResponse # Null =>
            /\ done.res[1].status = 200
            /\ txs[done.id].status = done.moonpayResponse[1].status
            /\ txs[done.id].cryptoAmount = done.moonpayResponse[1].cryptoAmount
            /\ done.res[1].transaction = txs[done.id]

\* C4 witness: a fetch read a row whose status was 'completed' and left it,
\* as MoonPay answered, at 'waitingPayment'.
C4_Witness ==
  /\ done.kind = "fetch"
  /\ done.moonpayResponse # Null
  /\ done.read[1].status = "completed"
  /\ done.res[1].transaction.status = "waitingPayment"
  /\ txs[done.id].status = "waitingPayment"

\* C5: a webhook whose id matches a row sets the status and cryptoAmount of
\* that row to the payload's values; the row's other columns and every other
\* row stay as they were.
C5_Step ==
  (done'.kind = "webhook" /\ done'.transaction # Null) =>
    LET t == done'.transaction[1]
        data == done'.body.data[1]
    IN  /\ t.moonpayTransactionId = data.id
        /\ Len(txs') = Len(txs)
        /\ txs'[t.id] = [txs[t.id] EXCEPT !.status = data.status,
                                          !.cryptoAmount = data.cryptoAmount]
        /\ \A j \in 1..Len(txs) : j # t.id => txs'[j] = txs[j]

C5_WebhookUpdatesOneRecord == [][C5_Step]_vars

\* C5 witness: a webhook has updated one of two rows, and the rows differ in
\* status and in cryptoAmount.
C5_Witness ==
  /\ done.kind = "webhook"
  /\ done.transaction # Null
  /\ done.body.data[1].id # Null
  /\ Len(txs) >= 2
  /\ \E j \in 1..Len(txs) :
       /\ j # done.transaction[1].id
       /\ txs[j].status # txs[done.transaction[1].id].status
       /\ txs[j].cryptoAmount # txs[done.transaction[1].id].cryptoAmount

\* C6: a fetch and a webhook for the same row race with a last-write-wins
\* outcome: when a webhook writes the row after MoonPay has answered the
\* fetch, the fetch's later write leaves the row at what the fetch read.
C6_LastWriteWins ==
  (done.kind = "fetch" /\ done.overtakenBy # Null) =>
    /\ txs[done.id].status = done.moonpayResponse[1].status
    /\ txs[done.id].cryptoAmount = done.moonpayResponse[1].cryptoAmount

\* C6 witness: MoonPay answered the fetch s1, a webhook then wrote s2 # s1,
\* and the fetch's write left the row at s1.
C6_Witness ==
  /\ done.kind = "fetch"
  /\ done.overtakenBy # Null
  /\ done.overtakenBy[1] # done.moonpayResponse[1].status
  /\ txs[done.id].status = done.moonpayResponse[1].status

\* C7: no two rows hold the same non-null external id.
C7_ExternalIdUnique ==
  \A i, j \in 1..Len(txs) :
    (i # j /\ txs[i].moonpayTransactionId # Null) =>
      txs[i].moonpayTransactionId # txs[j].moonpayTransactionId

\* C8: a row whose status is 'completed' or 'failed' is never set back to
\* 'pending' or 'waitingPayment'.
C8_StatusOnlyMovesForward ==
  [][\A i \in 1..Len(txs) :
       txs[i].status \in {"completed", "failed"} =>
         txs'[i].status \notin {"pending", "waitingPayment"}]_vars

\* C9: when the MoonPay create call fails the create handler answers 500, and
\* the row it wrote reads 'pending' with a null external id from then on.
C9_FailedCreateStaysPending ==
  /\ (done.kind = "create" /\ done.posts = 1 /\ done.moonpayResponse = Null) =>
       done.res[1].status = 500
  /\ \A i \in orphaned :
       /\ txs[i].status = "pending"
       /\ txs[i].moonpayTransactionId = Null

\* C10: a create request without userDetails or without amount is answered
\* with a 4xx.
C10_MalformedInputIs4xx ==
  (done.kind = "create"
     /\ (done.body.userDetails = Null \/ done.body.amount = Null)) =>
    done.res[1].status \in 400..499

\* C11: a fetch of a row whose external id is null answers the row as it is,
\* leaves every column of it alone and issues no MoonPay call.
C11_FetchWithoutExternalId ==
  /\ \A h \in InFlight("fetch") : h.read[1].moonpayTransactionId # Null
  /\ (done.kind = "fetch" /\ done.read # Null
        /\ done.read[1].moonpayTransactionId = Null) =>
       /\ done.gets = 0
       /\ done.moonpayResponse = Null
       /\ done.res[1].status = 200
       /\ done.res[1].transaction = done.read[1]
       /\ txs[done.id] = done.read[1]

\* C11 witness: a fetch answered a row that a failed create had left without
\* an external id.
C11_Witness ==
  /\ done.kind = "fetch"
  /\ done.read # Null
  /\ done.read[1].moonpayTransactionId = Null
  /\ done.id \in orphaned
  /\ done.res[1].status = 200

\* C12: a webhook whose id matches no row changes no row and is answered
\* 200 'OK'; only a webhook that matched a row goes on to an UPDATE.
C12_Step ==
  /\ (arrived' # arrived /\ done'.kind = "webhook" /\ done'.body.data # Null) =>
       /\ \A j \in 1..Len(txs) :
            txs[j].moonpayTransactionId # done'.body.data[1].id
       /\ done'.transaction = Null
       /\ done'.res[1] = [status |-> 200, text |-> "OK"]
       /\ txs' = txs
  /\ (Len(handlers') > Len(handlers)
        /\ handlers'[Len(handlers')].kind = "webhook") =>
       \E j \in 1..Len(txs) :
         txs[j].moonpayTransactionId = handlers'[Len(handlers')].body.data[1].id

C12_UnknownWebhookIsNoOp == [][C12_Step]_vars

\* C12 witness: a webhook for 'ext_2' was answered 200 'OK' while the only
\* row holds 'ext_1'.
C12_Witness ==
  /\ done.kind = "webhook"
  /\ done.transaction = Null
  /\ done.body.data # Null
  /\ done.body.data[1].id = Some("ext_2")
  /\ done.res[1] = [status |-> 200, text |-> "OK"]
  /\ Len(txs) = 1
  /\ txs[1].moonpayTransactionId = Some("ext_1")

\* C13: the external id of a row is written at most once, and only by the
\* create handler of that row after its MoonPay call succeeded: a change of
\* the column starts from null, and no fetch or webhook changes it.
C13_Step ==
  \A i \in 1..Len(txs) :
    txs'[i].moonpayTransactionId # txs[i].moonpayTransactionId =>
      /\ txs[i].moonpayTransactionId = Null
      /\ done'.kind = "create"
      /\ done'.written = <<i>>
      /\ done'.moonpayResponse # Null
      /\ txs'[i].moonpayTransactionId = done'.moonpayResponse[1].id

C13_ExternalIdWrittenOnce == [][C13_Step]_vars

\* C13 witness: a row holds an external id and a webhook has just written the
\* row.
C13_Witness ==
  /\ done.kind = "webhook"
  /\ done.transaction # Null
  /\ txs[done.transaction[1].id].moonpayTransactionId # Null

\* C14: id, userId, amount, currency, cryptoCurrency and paymentMethod of a
\* row never change once the row is inserted, and no row is ever deleted.
C14_Step ==
  /\ Len(txs') >= Len(txs)
  /\ \A i \in 1..Len(txs) :
       /\ txs'[i].id = txs[i].id
       /\ txs'[i].userId = txs[i].userId
       /\ txs'[i].amount = txs[i].amount
       /\ txs'[i].currency = txs[i].currency
       /\ txs'[i].cryptoCurrency = txs[i].cryptoCurrency
       /\ txs'[i].paymentMethod = txs[i].paymentMethod

C14_CreationFieldsImmutable == [][C14_Step]_vars

\* C14 witness: a row has been written by its create handler and then by a
\* fetch, and still carries what the request body gave it.
C14_Witness ==
  /\ done.kind = "fetch"
  /\ done.moonpayResponse # Null
  /\ txs[done.id].cryptoAmount # Null
  /\ txs[done.id].amount = TestBody.amount
  /\ txs[done.id].paymentMethod = TestBody.paymentMethod

\* C15: when the MoonPay lookup of a fetch fails, the fetch is answered 500
\* without a record, and the fetch has changed no row.
C15_Step ==
  (done'.kind = "fetch" /\ done'.gets = 1 /\ done'.moonpayResponse = Null) =>
    /\ done'.res[1] = [status |-> 500, error |-> "Failed to fetch transaction"]
    /\ txs' = txs

C15_FailedLookupFailsFetch == [][C15_Step]_vars

\* C15 witness: a lookup failed for a row that holds an external id.
C15_Witness ==
  /\ done.kind = "fetch"
  /\ done.gets = 1
  /\ done.moonpayResponse = Null
  /\ done.res[1].status = 500
  /\ txs[done.id].moonpayTransactionId # Null

\* C16: the payload create sends to MoonPay carries a card sub-object, holding
\* the request's card number, expiry month, expiry year, cvv and holder name,
\* exactly when the payment method of the request is the card one.
C16_CardExactlyForCardPayment ==
  \A h \in InFlight("create") \cup {done} :
    (h.kind = "create" /\ h.moonpayPayload # Null) =>
      /\ h.moonpayPayload[1].card # Null <=> h.body.paymentMethod = "card_payment"
      /\ h.moonpayPayload[1].card # Null =>
           /\ h.body.cardDetails # Null
           /\ h.moonpayPayload[1].card[1] =
                [number |-> h.body.cardDetails[1].cardNumber,
                 expirationMonth |-> h.body.cardDetails[1].expiryMonth,
                 expirationYear |-> h.body.cardDetails[1].expiryYear,
                 cvc |-> h.body.cardDetails[1].cvv,
                 cardholderName |-> h.body.cardDetails[1].cardholderName]

\* C17: a webhook for an external id MoonPay has issued to a create of this
\* server is never answered as matching no row: not while the create that
\* received the id still has its UPDATE ahead, and not once a row holds it.
C17_IssuedIdWebhookNotDropped ==
  (done.kind = "webhook" /\ done.body.data # Null /\ done.transaction = Null
     /\ done.body.data[1].id # Null) =>
    /\ \A h \in InFlight("create") :
         (h.pc = "update" /\ h.moonpayResponse # Null) =>
           h.moonpayResponse[1].id # done.body.data[1].id
    /\ \A i \in 1..Len(txs) :
         txs[i].moonpayTransactionId # done.body.data[1].id

\* C18: a row whose cryptoAmount is not null holds an external id.
C18_CryptoAmountNeedsExternalId ==
  \A i \in 1..Len(txs) :
    txs[i].cryptoAmount # Null => txs[i].moonpayTransactionId # Null

====
